---- MODULE Spec2Model ----
(***************************************************************************)
(* Model of templates/rust/function-template.rs: the public function       *)
(* function_name(param1: &str, param2: i32) -> Result<FunctionResult,      *)
(* String>, run by one or several independent execution contexts.          *)
(*                                                                         *)
(* Text is a sequence of one-character strings, so that format! and        *)
(* str::contains are computed rather than assumed.  Integers are i32: the  *)
(* product param2 * 2 is computed in 32 bits, and what an overflow does    *)
(* depends on the build profile (overflow-checks on: panic, off: wrap).    *)
(***************************************************************************)
EXTENDS Integers, Sequences, FiniteSets, TLC

(***************************************************************************)
(* Bounds of the model.                                                    *)
(***************************************************************************)
\* longest text passed as param1 by the single sequential context
MaxLen == 2
\* number of execution contexts calling function_name concurrently
NumContexts == 2
\* longest text passed as param1 by the concurrent contexts
MaxLenConc == 1

(***************************************************************************)
(* i32                                                                     *)
(***************************************************************************)
I32_MAX == 2147483647
I32_MIN == -I32_MAX - 1
\* largest i32 whose double is still an i32
HALF_MAX == I32_MAX \div 2

\* true iff the mathematical product 2 * n is outside the i32 range
mul2_overflows(n) == n > HALF_MAX \/ n < -HALF_MAX - 1

\* (2 * n) mod 2^32 read as a two's complement i32, computed without ever
\* leaving the i32 range
wrapping_mul2(n) ==
    IF n > HALF_MAX THEN (n - HALF_MAX - 1) * 2 + I32_MIN
    ELSE IF n < -HALF_MAX - 1 THEN ((n + HALF_MAX + 1) * 2 + I32_MAX) + 1
    ELSE n * 2

(***************************************************************************)
(* Text                                                                    *)
(***************************************************************************)
\* characters of the param1 inputs: lower case, upper case, blank
Alphabet == {"a", "B", " "}
AlphabetConc == {"a"}

RECURSIVE SeqsUpTo(_, _)
SeqsUpTo(S, n) ==
    IF n = 0 THEN {<<>>}
    ELSE LET shorter == SeqsUpTo(S, n - 1)
         IN  shorter \cup {Append(s, c) : s \in shorter, c \in S}

\* str::is_empty
is_empty(s) == Len(s) = 0

\* str::contains(needle)
contains(hay, needle) ==
    \E i \in 0..(Len(hay) - Len(needle)) :
        SubSeq(hay, i + 1, i + Len(needle)) = needle

\* the literal "processed_"
PREFIX == <<"p","r","o","c","e","s","s","e","d","_">>

\* format!("processed_{}", param1)
format_processed(param1) == PREFIX \o param1

\* the message reworded without the word the callers match on
ERR_EMPTY_reworded ==
    <<"p","a","r","a","m","1"," ","i","s"," ","r","e","q","u","i","r","e","d">>

\* "param1 cannot be empty".to_string()
ERR_EMPTY ==
    <<"p","a","r","a","m","1"," ","c","a","n","n","o","t"," ","b","e"," ",
      "e","m","p","t","y">>

\* "param2 must be non-negative".to_string()
ERR_NEGATIVE ==
    <<"p","a","r","a","m","2"," ","m","u","s","t"," ","b","e"," ",
      "n","o","n","-","n","e","g","a","t","i","v","e">>

\* the substrings the tests look for in an error message
EMPTY == <<"e","m","p","t","y">>
NON_NEGATIVE == <<"n","o","n","-","n","e","g","a","t","i","v","e">>

\* the sign check off by one: -1 passes
is_negative_below_minus_one(param2) == param2 < -1

\* the sign check off by one the other way: 0 is rejected
is_negative_or_zero(param2) == param2 <= 0

\* param2 < 0
is_negative(param2) == param2 < 0

(***************************************************************************)
(* Outcomes of one invocation                                              *)
(***************************************************************************)
Pending == [tag |-> "Pending"]
Ok(key1, key2) == [tag |-> "Ok", key1 |-> key1, key2 |-> key2]
Err(msg) == [tag |-> "Err", msg |-> msg]
Panic == [tag |-> "Panic"]

\* FunctionResult { key1: format!(..), key2: param2 * 2 }, then Ok(result)
transform(param1, param2, checks) ==
    IF mul2_overflows(param2) /\ checks
    THEN Panic
    ELSE Ok(format_processed(param1), wrapping_mul2(param2))

\* the whole function, run start to end by one caller
function_name(param1, param2, checks) ==
    IF is_empty(param1) THEN Err(ERR_EMPTY)
    ELSE IF is_negative(param2) THEN Err(ERR_NEGATIVE)
    ELSE transform(param1, param2, checks)

(***************************************************************************)
(* Inputs                                                                  *)
(***************************************************************************)
Contexts == 1..NumContexts
SeqContexts == {1}

Texts == SeqsUpTo(Alphabet, MaxLen)
TextsConc == SeqsUpTo(AlphabetConc, MaxLenConc)

\* the boundaries of i32, of the sign check and of the doubling, and the
\* numbers the tests use
Numbers == {I32_MIN, -HALF_MAX - 1, -1, 0, 1, 42, 1000000,
            HALF_MAX, HALF_MAX + 1, I32_MAX}
NumbersConc == {I32_MIN, -1, 0, 1, HALF_MAX + 1}

(***************************************************************************)
(* State                                                                   *)
(***************************************************************************)
VARIABLES
    overflow_checks,  \* build profile: TRUE iff arithmetic overflow panics
    pc,               \* per context: position in function_name
    param1,           \* per context: text argument of the current call
    param2,           \* per context: integer argument of the current call
    outcome           \* per context: what the current call returned

vars == <<overflow_checks, pc, param1, param2, outcome>>

Init ==
    /\ overflow_checks \in BOOLEAN
    /\ pc = [t \in Contexts |-> "idle"]
    /\ param1 = [t \in Contexts |-> <<>>]
    /\ param2 = [t \in Contexts |-> 0]
    /\ outcome = [t \in Contexts |-> Pending]

\* the arguments kept in one slot shared by all contexts
Call_shared_arguments(t, s, n) ==
    /\ pc[t] \in {"idle", "done"}
    /\ pc' = [pc EXCEPT ![t] = "check_param1"]
    /\ param1' = [u \in Contexts |-> s]
    /\ param2' = [u \in Contexts |-> n]
    /\ outcome' = [outcome EXCEPT ![t] = Pending]
    /\ UNCHANGED overflow_checks

\* a caller enters function_name(s, n)
Call(t, s, n) ==
    /\ pc[t] \in {"idle", "done"}
    /\ pc' = [pc EXCEPT ![t] = "check_param1"]
    /\ param1' = [param1 EXCEPT ![t] = s]
    /\ param2' = [param2 EXCEPT ![t] = n]
    /\ outcome' = [outcome EXCEPT ![t] = Pending]
    /\ UNCHANGED overflow_checks

\* the first check made on the wrong parameter: the sign test runs first and
\* the text is never tested
CheckParam1_sign_first(t) ==
    /\ pc[t] = "check_param1"
    /\ IF is_negative(param2[t])
       THEN /\ outcome' = [outcome EXCEPT ![t] = Err(ERR_NEGATIVE)]
            /\ pc' = [pc EXCEPT ![t] = "done"]
       ELSE /\ pc' = [pc EXCEPT ![t] = "check_param2"]
            /\ UNCHANGED outcome
    /\ UNCHANGED <<overflow_checks, param1, param2>>

\* if param1.is_empty() { return Err(..) }
CheckParam1(t) ==
    /\ pc[t] = "check_param1"
    /\ IF is_empty(param1[t])
       THEN /\ outcome' = [outcome EXCEPT ![t] = Err(ERR_EMPTY)]
            /\ pc' = [pc EXCEPT ![t] = "done"]
       ELSE /\ pc' = [pc EXCEPT ![t] = "check_param2"]
            /\ UNCHANGED outcome
    /\ UNCHANGED <<overflow_checks, param1, param2>>

\* if param2 < 0 { return Err(..) }
CheckParam2(t) ==
    /\ pc[t] = "check_param2"
    /\ IF is_negative(param2[t])
       THEN /\ outcome' = [outcome EXCEPT ![t] = Err(ERR_NEGATIVE)]
            /\ pc' = [pc EXCEPT ![t] = "done"]
       ELSE /\ pc' = [pc EXCEPT ![t] = "transform"]
            /\ UNCHANGED outcome
    /\ UNCHANGED <<overflow_checks, param1, param2>>

\* the number read from a slot that the first context last wrote
Transform_stale_number(t) ==
    /\ pc[t] = "transform"
    /\ outcome' = [outcome EXCEPT
                     ![t] = transform(param1[t], param2[1], overflow_checks)]
    /\ pc' = [pc EXCEPT ![t] = IF outcome'[t] = Panic THEN "panicked"
                                ELSE "done"]
    /\ UNCHANGED <<overflow_checks, param1, param2>>

\* let result = FunctionResult { .. }; Ok(result)
\* an overflow panic unwinds the context: it makes no further call
Transform(t) ==
    /\ pc[t] = "transform"
    /\ outcome' = [outcome EXCEPT
                     ![t] = transform(param1[t], param2[t], overflow_checks)]
    /\ pc' = [pc EXCEPT ![t] = IF outcome'[t] = Panic THEN "panicked"
                                ELSE "done"]
    /\ UNCHANGED <<overflow_checks, param1, param2>>

\* one caller, one call after the other
Next ==
    \/ \E t \in SeqContexts, s \in Texts, n \in Numbers : Call(t, s, n)
    \/ \E t \in SeqContexts : CheckParam1(t)
    \/ \E t \in SeqContexts : CheckParam2(t)
    \/ \E t \in SeqContexts : Transform(t)

Spec == Init /\ [][Next]_vars

\* several callers, their steps interleaved
NextConc ==
    \/ \E t \in Contexts, s \in TextsConc, n \in NumbersConc : Call(t, s, n)
    \/ \E t \in Contexts : CheckParam1(t)
    \/ \E t \in Contexts : CheckParam2(t)
    \/ \E t \in Contexts : Transform(t)

SpecConc == Init /\ [][NextConc]_vars

Terminal(t) == pc[t] \in {"done", "panicked"}

TypeOK ==
    /\ overflow_checks \in BOOLEAN
    /\ \A t \in Contexts :
        /\ pc[t] \in {"idle", "check_param1", "check_param2", "transform",
                      "done", "panicked"}
        /\ param2[t] >= I32_MIN /\ param2[t] <= I32_MAX
        /\ outcome[t].tag \in {"Pending", "Ok", "Err", "Panic"}

(***************************************************************************)
(* Properties                                                              *)
(***************************************************************************)
\* k is the mathematical product 2 * n (stated by halving k, so that the
\* comparison itself needs no number outside the i32 range)
IsDouble(k, n) == k % 2 = 0 /\ k \div 2 = n

Valid(t) == param1[t] # <<>> /\ param2[t] >= 0

\* C1: for every non-empty text s and every n with 0 <= n <= i32::MAX the
\* call returns Ok with key1 = "processed_" + s and key2 = 2 * n.
C1_ValidInputYieldsProduct ==
    \A t \in Contexts :
        (Terminal(t) /\ param1[t] # <<>> /\ param2[t] >= 0)
            => /\ outcome[t].tag = "Ok"
               /\ outcome[t].key1 = PREFIX \o param1[t]
               /\ IsDouble(outcome[t].key2, param2[t])

\* C2: whenever a call ends in Success, its result has key1 = "processed_"
\* + s and key2 = 2 * n as integers, with no wrap-around.
C2_SuccessCarriesProduct ==
    \A t \in Contexts :
        (pc[t] = "done" /\ outcome[t].tag = "Ok")
            => /\ outcome[t].key1 = PREFIX \o param1[t]
               /\ IsDouble(outcome[t].key2, param2[t])

\* C3: for every n >= 0, function_name("", n) ends in Failure with a message
\* that contains "empty", and no result is produced.
C3_EmptyTextFails ==
    \A t \in Contexts :
        (Terminal(t) /\ param1[t] = <<>> /\ param2[t] >= 0)
            => /\ pc[t] = "done"
               /\ outcome[t].tag = "Err"
               /\ DOMAIN outcome[t] = {"tag", "msg"}
               /\ contains(outcome[t].msg, EMPTY)

C3_Witness ==
    \E t \in Contexts :
        /\ pc[t] = "done" /\ param1[t] = <<>> /\ param2[t] = I32_MAX
        /\ outcome[t].tag = "Err"

\* C4: for every non-empty text and every negative n, down to i32::MIN, the
\* call ends in Failure with a message that contains "non-negative", and no
\* result is produced.
C4_NegativeNumberFails ==
    \A t \in Contexts :
        (Terminal(t) /\ param1[t] # <<>> /\ param2[t] < 0)
            => /\ pc[t] = "done"
               /\ outcome[t].tag = "Err"
               /\ DOMAIN outcome[t] = {"tag", "msg"}
               /\ contains(outcome[t].msg, NON_NEGATIVE)

C4_Witness ==
    \E t \in Contexts :
        /\ pc[t] = "done" /\ param1[t] # <<>> /\ param2[t] = I32_MIN
        /\ outcome[t].tag = "Err"

\* C5: the text check comes first and short-circuits: with both inputs bad
\* the failure is the "empty" one, not the "non-negative" one; and a call
\* with a bad input never reaches the sign check with an empty text nor the
\* transform step, and ends in a Failure.
C5_TextCheckFirst ==
    \A t \in Contexts :
        /\ pc[t] = "check_param2" => param1[t] # <<>>
        /\ pc[t] = "transform" => Valid(t)
        /\ (Terminal(t) /\ ~Valid(t)) => outcome[t].tag = "Err"
        /\ (Terminal(t) /\ param1[t] = <<>> /\ param2[t] < 0)
             => /\ contains(outcome[t].msg, EMPTY)
                /\ ~contains(outcome[t].msg, NON_NEGATIVE)

C5_Witness ==
    \E t \in Contexts :
        /\ pc[t] = "done" /\ param1[t] = <<>> /\ param2[t] < 0
        /\ outcome[t] = Err(ERR_EMPTY)

\* C6: every call ends in exactly one of Success(result) or
\* Failure(message); no input leads to another outcome such as an abort in
\* the doubling step.
C6_EndsInSuccessOrFailure ==
    \A t \in Contexts :
        /\ pc[t] # "panicked"
        /\ Terminal(t) => outcome[t].tag \in {"Ok", "Err"}

\* C7: a Failure occurs iff a precondition is violated; its message contains
\* "empty" exactly when the text is empty and "non-negative" exactly when
\* the text is non-empty and n < 0; no valid input yields a Failure.
C7_FailureIffInvalid ==
    \A t \in Contexts :
        Terminal(t) =>
            /\ (outcome[t].tag = "Err") <=> ~Valid(t)
            /\ outcome[t].tag = "Err" =>
                /\ contains(outcome[t].msg, EMPTY) <=> (param1[t] = <<>>)
                /\ contains(outcome[t].msg, NON_NEGATIVE)
                     <=> (param1[t] # <<>> /\ param2[t] < 0)

C7_Witness ==
    \E t \in Contexts :
        /\ pc[t] = "done" /\ param1[t] # <<>> /\ param2[t] = -1
        /\ outcome[t].tag = "Err"
        /\ ~contains(outcome[t].msg, EMPTY)

\* C8: two calls with identical inputs yield identical outcomes, whatever
\* other calls were made before or between them.
C8_SameInputsSameOutcome ==
    \A t, u \in Contexts :
        (Terminal(t) /\ Terminal(u)
            /\ param1[t] = param1[u] /\ param2[t] = param2[u])
            => outcome[t] = outcome[u]

C8_Witness ==
    \E t, u \in Contexts :
        /\ t # u /\ pc[t] = "done" /\ pc[u] = "done"
        /\ param1[t] = param1[u] /\ param2[t] = param2[u]
        /\ outcome[t].tag = "Ok" /\ outcome[u].tag = "Ok"

\* C9: under every interleaving of the steps of concurrent calls, the
\* outcome of each call is the one the same call produces when run alone.
C9_OutcomeAsWhenRunAlone ==
    \A t \in Contexts :
        Terminal(t) =>
            outcome[t] = function_name(param1[t], param2[t], overflow_checks)

C9_Witness ==
    \E t, u \in Contexts :
        /\ t # u /\ pc[t] = "done" /\ outcome[t].tag = "Ok"
        /\ pc[u] \in {"check_param2", "transform"}
        /\ param2[u] # param2[t]

\* C10: for every non-empty text and every n > 0 the call returns Ok with a
\* non-empty key1 and key2 # 0; a successful result has key2 = 0 exactly
\* when n = 0.
C10_PositiveInputNonZeroResult ==
    \A t \in Contexts :
        /\ (Terminal(t) /\ param1[t] # <<>> /\ param2[t] > 0)
             => /\ outcome[t].tag = "Ok"
                /\ outcome[t].key1 # <<>>
                /\ outcome[t].key2 # 0
        /\ (pc[t] = "done" /\ outcome[t].tag = "Ok")
             => (outcome[t].key2 = 0 <=> param2[t] = 0)
====
